---- MODULE Spec2Model ----
(***************************************************************************)
(* Model of the DynamiCrafter notebook                                     *)
(* (notebooks/dynamicrafter-animating-images): the skip-if-exists          *)
(* conversion step `convert`, the five conversions, compilations and       *)
(* attribute replacements of the notebook, the demo launch and the demo    *)
(* callback get_image; and of the CI workflow `treon` that runs the        *)
(* notebooks.                                                              *)
(***************************************************************************)
EXTENDS Integers, Sequences, FiniteSets, TLC

(***************************************************************************)
(* Bounds of the model.                                                    *)
(***************************************************************************)
\* number of convert calls an interactive user makes in one session
MaxCalls == 3

(***************************************************************************)
(* The filesystem namespace: directories and artifact paths.               *)
(***************************************************************************)
COND_STAGE_MODEL_OV_PATH == "models/cond_stage_model.xml"
EMBEDDER_OV_PATH == "models/embedder_ir.xml"
ENCODER_FIRST_STAGE_OV_PATH == "models/encode_first_stage_ir.xml"
MODEL_OV_PATH == "models/model_ir.xml"
DECODER_FIRST_STAGE_OV_PATH == "models/decoder_first_stage_ir.xml"

NotebookPaths ==
  { COND_STAGE_MODEL_OV_PATH, EMBEDDER_OV_PATH, ENCODER_FIRST_STAGE_OV_PATH,
    MODEL_OV_PATH, DECODER_FIRST_STAGE_OV_PATH }

\* destination paths of the interactive session: the spec's scenario path and
\* one whose parent and grandparent directories may both be missing
UserPaths == { "models/x.xml", "out/ir/y.xml" }

Paths == NotebookPaths \cup UserPaths

Cwd == "."
Dirs == { "models", "out", "out/ir" }

\* pathlib: Path.parent of a directory
DirParent(d) == IF d = "out/ir" THEN "out" ELSE Cwd

\* pathlib: Path.parent of an artifact path
Parent(p) == IF p = "out/ir/y.xml" THEN "out/ir" ELSE "models"

RECURSIVE Ancestors(_)
\* a directory together with all its ancestors below the working directory
Ancestors(d) == IF d = Cwd THEN {} ELSE {d} \cup Ancestors(DirParent(d))

(***************************************************************************)
(* Values.                                                                 *)
(***************************************************************************)
\* input_shape argument: absent (None), an empty list, or [1, 3, -1, -1]
NoShape == [given |-> FALSE, dims |-> <<>>]
EmptyShape == [given |-> TRUE, dims |-> <<>>]
DynShape == [given |-> TRUE, dims |-> <<1, 3, -1, -1>>]
Shapes == { NoShape, EmptyShape, DynShape }

UserModules == { "stubModule", "changedModule" }

\* the pipeline attributes the notebook converts and later replaces
Attrs == { "cond_stage_model", "embedder", "first_stage_model.encoder",
           "model.diffusion_model", "first_stage_model.decoder" }

\* exception classes the launch can raise; the last two derive from
\* BaseException only
LaunchErrors == { "OSError", "ValueError", "KeyboardInterrupt", "SystemExit" }

\* contents of an artifact path
Missing == [present |-> FALSE, src |-> "none", input |-> NoShape, complete |-> FALSE]
NoModel == [src |-> "none", input |-> NoShape]

ConverterErrors == { "ShapeMismatch", "UnsupportedOperator" }
SaveErrors == { "OSError" }

NoCall == [model |-> "none", xml_path |-> "none", input_shape |-> NoShape,
           nconv |-> 0, status |-> "none", site |-> "none"]

\* no repository event yet
NoEvent == [type |-> "none", branch |-> "none", pr |-> 0, changed |-> {}]

VARIABLES
  dirs,             \* directories that exist
  files,            \* artifact path -> contents (Missing when no file)
  registry,         \* entries held by the converter's class registry
  pc,               \* position inside convert: idle, mkdir, convert_model, save_model, cleanup
  cur,              \* arguments of the current (or last) convert call, its converter
                    \* invocation count and how it ended
  prev,             \* the same record for the call before it
  converted_model,  \* local variable converted_model
  raised,           \* exception that left the last statement, "None" if none
  thrown,           \* exception as raised by the external routine
  pre,              \* filesystem and registry as they were when the call was made
  calls,            \* convert calls made so far
  passed,           \* the objects passed to convert as `model` so far
  converterFailed,  \* paths whose latest converter invocation raised
  files0,           \* the files as the session found them
  cell,             \* next statement of the notebook (0: no notebook run)
  compiled,         \* artifact paths compiled by core.compile_model
  pipeline,         \* pipeline attribute -> "torch" or the compiled artifact it wraps
  launches,         \* the launch attempts so far, each with its share flag
  caught,           \* exception handled by the except clause, "None" if none
  prompt,           \* get_image: the prompt of the last call
  returned,         \* get_image: the path the last call returned
  overwritten,      \* get_image: the last call wrote the file that the call before it
                    \* wrote for another prompt
  resultDir,        \* get_image: whether the directory results exists
  generated,        \* get_image: whether it has been called
  runs,             \* workflow runs, oldest first
  lastEvent,        \* the last repository event
  lastTriggered     \* whether that event started a run of the workflow

nbvars == << cell, compiled, pipeline, launches, caught >>

\* state of the demo callback get_image
uivars == << prompt, returned, overwritten, resultDir, generated >>

\* state of the CI workflow
civars == << runs, lastEvent, lastTriggered >>

vars == << dirs, files, registry, pc, cur, prev, converted_model, raised, thrown,
           pre, calls, passed, converterFailed, files0, cell, compiled, pipeline, launches,
           caught, prompt, returned, overwritten, resultDir, generated, runs, lastEvent,
           lastTriggered >>

(***************************************************************************)
(* pathlib                                                                 *)
(***************************************************************************)
\* a check of another path than xml_path (say its .bin sibling), which no
\* call ever creates
Mut_PathExistsOtherPath(f, p) == FALSE

\* an existence check that also validates the file
Mut_PathExistsValidated(f, p) == f[p].present /\ f[p].complete

\* Path.exists(): true for whatever file is at the path
PathExists(f, p) == f[p].present

\* Path.mkdir(parents, exist_ok) on directory d
MkdirResult(ds, d, parents, exist_ok) ==
  IF d \in ds
    THEN IF exist_ok THEN [err |-> "None", dirs |-> ds]
                     ELSE [err |-> "FileExistsError", dirs |-> ds]
  ELSE IF DirParent(d) = Cwd \/ DirParent(d) \in ds
    THEN [err |-> "None", dirs |-> ds \cup {d}]
  ELSE IF parents
    THEN [err |-> "None", dirs |-> ds \cup Ancestors(d)]
  ELSE [err |-> "FileNotFoundError", dirs |-> ds]

\* the same call without parents=True
Mut_MakeParentDirNoParents(ds, p) == MkdirResult(ds, Parent(p), FALSE, TRUE)

\* xml_path.parent.mkdir(parents=True, exist_ok=True)
MakeParentDir(ds, p) == MkdirResult(ds, Parent(p), TRUE, TRUE)

(***************************************************************************)
(* openvino                                                                *)
(***************************************************************************)
\* the test `if input_shape is None`
Mut_TruthyIsNotNone(sh) == sh.given

\* `if not input_shape`: None and the empty list are both falsy
Truthy(sh) == sh.given /\ Len(sh.dims) > 0

\* ov.convert_model(model, example_input=..., [input=input_shape])
ConvertModel(m, sh) == [src |-> m, input |-> IF Truthy(sh) THEN sh ELSE NoShape]

\* ov.save_model(converted_model, xml_path, compress_to_fp16=False)
SavedArtifact(cm) == [present |-> TRUE, src |-> cm.src, input |-> cm.input, complete |-> TRUE]

\* what an interrupted save_model can leave at the path
PartialArtifact(cm) == [present |-> TRUE, src |-> cm.src, input |-> cm.input, complete |-> FALSE]

\* convert wrapping whatever fails into an error of its own
Mut_PropagateTranslated(e) == "ConversionError"

\* an exception leaving convert: there is no except clause, it is the one raised
Propagate(e) == e

\* a conversion on every call
Mut_NeedsConversionAlways(f, m, p) == TRUE

\* a staleness check: convert again when the artifact came from another module
Mut_NeedsConversionIfStale(f, m, p) == ~PathExists(f, p) \/ f[p].src # m

\* the test `if not xml_path.exists()` of a call convert(m, p, ...)
NeedsConversion(f, m, p) == ~PathExists(f, p)

(***************************************************************************)
(* Initial states                                                          *)
(***************************************************************************)
\* the module and input shape an earlier session converted into path p
EarlierModel(p) ==
  IF p = COND_STAGE_MODEL_OV_PATH
    THEN ConvertModel("FrozenOpenCLIPEmbedderWrapper(cpu)", NoShape)
  ELSE IF p = EMBEDDER_OV_PATH THEN ConvertModel("model.embedder", DynShape)
  ELSE IF p = ENCODER_FIRST_STAGE_OV_PATH
    THEN ConvertModel("model.first_stage_model.encoder", NoShape)
  ELSE IF p = MODEL_OV_PATH
    THEN ConvertModel("ModelWrapper(model.model.diffusion_model)", NoShape)
  ELSE IF p = DECODER_FIRST_STAGE_OV_PATH
    THEN ConvertModel("model.first_stage_model.decoder", NoShape)
  ELSE ConvertModel("stubModule", NoShape)

\* an artifact left by an earlier session: none, a whole one, a partial one
Leftover(p, k) ==
  CASE k = 0 -> Missing
    [] k = 1 -> SavedArtifact(EarlierModel(p))
    [] k = 2 -> PartialArtifact(EarlierModel(p))

\* the files an earlier session can have left at the paths ps
LeftoverFiles(ps) ==
  { [p \in Paths |-> IF p \in ps THEN Leftover(p, k[p]) ELSE Missing] :
      k \in [ps -> {0, 1, 2}] }

WellFormed(ds, f) ==
  /\ \A d \in ds : Ancestors(d) \subseteq ds
  /\ \A p \in Paths : f[p].present => Parent(p) \in ds

InitProcess ==
  /\ registry = 0
  /\ pc = "idle"
  /\ cur = NoCall
  /\ prev = NoCall
  /\ converted_model = NoModel
  /\ raised = "None"
  /\ thrown = "None"
  /\ pre = [files |-> files, dirs |-> dirs, registry |-> 0]
  /\ calls = 0
  /\ passed = {}
  /\ converterFailed = {}
  /\ files0 = files
  /\ compiled = {}
  /\ pipeline = [a \in Attrs |-> "torch"]
  /\ launches = << >>
  /\ caught = "None"

\* the demo callback has not been called
InitGetImage ==
  /\ prompt = << >>
  /\ returned = << >>
  /\ overwritten = FALSE
  /\ generated = FALSE

\* no repository event has happened
InitWorkflow ==
  /\ runs = << >>
  /\ lastEvent = NoEvent
  /\ lastTriggered = FALSE

Init ==
  /\ dirs \in SUBSET Dirs
  /\ files \in LeftoverFiles(UserPaths)
  /\ WellFormed(dirs, files)
  /\ cell = 0
  /\ InitProcess
  /\ InitGetImage
  /\ resultDir = FALSE
  /\ InitWorkflow

(***************************************************************************)
(* convert(model, xml_path, example_input, input_shape=None)               *)
(***************************************************************************)
\* convert with the cleanup statements outside the `if`
Mut_convertCleanupAlways(m, p, sh) ==
  /\ pc = "idle"
  /\ prev' = cur
  /\ pre' = [files |-> files, dirs |-> dirs, registry |-> registry]
  /\ raised' = "None"
  /\ thrown' = "None"
  /\ converted_model' = NoModel
  /\ calls' = calls + 1
  /\ passed' = passed \cup {m}
  /\ IF NeedsConversion(files, m, p)
       THEN /\ pc' = "mkdir"
            /\ cur' = [model |-> m, xml_path |-> p, input_shape |-> sh,
                       nconv |-> 0, status |-> "running", site |-> "none"]
            /\ UNCHANGED registry
       ELSE /\ pc' = "idle"
            /\ cur' = [model |-> m, xml_path |-> p, input_shape |-> sh,
                       nconv |-> 0, status |-> "returned", site |-> "none"]
            /\ registry' = 0
  /\ UNCHANGED << dirs, files, converterFailed, files0 >>
  /\ UNCHANGED << uivars, civars >>

\* entry and the test `if not xml_path.exists()`
convert(m, p, sh) ==
  /\ pc = "idle"
  /\ prev' = cur
  /\ pre' = [files |-> files, dirs |-> dirs, registry |-> registry]
  /\ raised' = "None"
  /\ thrown' = "None"
  /\ converted_model' = NoModel
  /\ calls' = calls + 1
  /\ passed' = passed \cup {m}
  /\ IF NeedsConversion(files, m, p)
       THEN /\ pc' = "mkdir"
            /\ cur' = [model |-> m, xml_path |-> p, input_shape |-> sh,
                       nconv |-> 0, status |-> "running", site |-> "none"]
       ELSE /\ pc' = "idle"
            /\ cur' = [model |-> m, xml_path |-> p, input_shape |-> sh,
                       nconv |-> 0, status |-> "returned", site |-> "none"]
  /\ UNCHANGED << dirs, files, registry, converterFailed, files0 >>
  /\ UNCHANGED << uivars, civars >>

\* xml_path.parent.mkdir(parents=True, exist_ok=True)
Mkdir ==
  /\ pc = "mkdir"
  /\ LET r == MakeParentDir(dirs, cur.xml_path) IN
       /\ dirs' = r.dirs
       /\ IF r.err = "None"
            THEN /\ pc' = "convert_model"
                 /\ UNCHANGED << cur, raised, thrown >>
            ELSE /\ pc' = "idle"
                 /\ cur' = [cur EXCEPT !.status = "raised", !.site = "mkdir"]
                 /\ thrown' = r.err
                 /\ raised' = Propagate(r.err)
  /\ UNCHANGED << files, registry, prev, converted_model, pre, calls, converterFailed, files0, nbvars >>
  /\ UNCHANGED << passed, uivars, civars >>

\* ov.convert_model returns
ConvertModelOk ==
  /\ pc = "convert_model"
  /\ converted_model' = ConvertModel(cur.model, cur.input_shape)
  /\ registry' = registry + 1
  /\ cur' = [cur EXCEPT !.nconv = @ + 1]
  /\ converterFailed' = converterFailed \ {cur.xml_path}
  /\ pc' = "save_model"
  /\ UNCHANGED << dirs, files, prev, raised, thrown, pre, calls, files0, nbvars >>
  /\ UNCHANGED << passed, uivars, civars >>

\* ov.convert_model raises e; tracing may already have registered classes
ConvertModelRaise(e, leaked) ==
  /\ pc = "convert_model"
  /\ registry' = registry + leaked
  /\ cur' = [cur EXCEPT !.nconv = @ + 1, !.status = "raised", !.site = "convert_model"]
  /\ converterFailed' = converterFailed \cup {cur.xml_path}
  /\ thrown' = e
  /\ raised' = Propagate(e)
  /\ pc' = "idle"
  /\ UNCHANGED << dirs, files, prev, converted_model, pre, calls, files0, nbvars >>
  /\ UNCHANGED << passed, uivars, civars >>

\* ov.save_model returns
SaveModelOk ==
  /\ pc = "save_model"
  /\ files' = [files EXCEPT ![cur.xml_path] = SavedArtifact(converted_model)]
  /\ pc' = "cleanup"
  /\ UNCHANGED << dirs, registry, cur, prev, converted_model, raised, thrown, pre,
                  calls, converterFailed, files0, nbvars >>
  /\ UNCHANGED << passed, uivars, civars >>

\* ov.save_model is interrupted by e, before or after the file was created
SaveModelRaise(e, partial) ==
  /\ pc = "save_model"
  /\ files' = IF partial
                THEN [files EXCEPT ![cur.xml_path] = PartialArtifact(converted_model)]
                ELSE files
  /\ cur' = [cur EXCEPT !.status = "raised", !.site = "save_model"]
  /\ thrown' = e
  /\ raised' = Propagate(e)
  /\ pc' = "idle"
  /\ UNCHANGED << dirs, registry, prev, converted_model, pre, calls, converterFailed, files0, nbvars >>
  /\ UNCHANGED << passed, uivars, civars >>

\* the cleanup statements placed before the save_model statement
Mut_CleanupBeforeSave ==
  /\ pc = "save_model"
  /\ registry' = 0
  /\ cur' = [cur EXCEPT !.status = "converted"]
  /\ pc' = "idle"
  /\ UNCHANGED << dirs, files, prev, converted_model, raised, thrown, pre, calls,
                  converterFailed, files0, nbvars >>
  /\ UNCHANGED << passed, uivars, civars >>

\* the three statements under "# cleanup memory"
Cleanup ==
  /\ pc = "cleanup"
  /\ registry' = 0
  /\ cur' = [cur EXCEPT !.status = "converted"]
  /\ pc' = "idle"
  /\ UNCHANGED << dirs, files, prev, converted_model, raised, thrown, pre, calls,
                  converterFailed, files0, nbvars >>
  /\ UNCHANGED << passed, uivars, civars >>

ConvertSteps ==
  \/ Mkdir
  \/ ConvertModelOk
  \/ \E e \in ConverterErrors, leaked \in {0, 1} : ConvertModelRaise(e, leaked)
  \/ SaveModelOk
  \/ \E e \in SaveErrors, partial \in BOOLEAN : SaveModelRaise(e, partial)
  \/ Cleanup

(***************************************************************************)
(* An interactive session: the user calls convert with arguments of their  *)
(* choice, also after a call that raised.                                  *)
(***************************************************************************)
UserConvert ==
  /\ calls < MaxCalls
  /\ cell = 0
  /\ \E m \in UserModules, p \in UserPaths, sh \in Shapes : convert(m, p, sh)
  /\ UNCHANGED nbvars

Next == UserConvert \/ ConvertSteps

Spec == Init /\ [][Next]_vars

(***************************************************************************)
(* The notebook, run from top to bottom: a statement that raises ends the  *)
(* run.                                                                    *)
(***************************************************************************)
\* the decoder call site reusing the encoder's path constant
Mut_NotebookCallSamePath(i) ==
  CASE i = 1 -> [attr |-> "cond_stage_model",
                 module |-> "FrozenOpenCLIPEmbedderWrapper(cpu)",
                 xml_path |-> COND_STAGE_MODEL_OV_PATH,
                 input_shape |-> NoShape]
    [] i = 2 -> [attr |-> "embedder", module |-> "model.embedder",
                 xml_path |-> EMBEDDER_OV_PATH,
                 input_shape |-> DynShape]
    [] i = 3 -> [attr |-> "first_stage_model.encoder",
                 module |-> "model.first_stage_model.encoder",
                 xml_path |-> ENCODER_FIRST_STAGE_OV_PATH, input_shape |-> NoShape]
    [] i = 4 -> [attr |-> "model.diffusion_model",
                 module |-> "ModelWrapper(model.model.diffusion_model)",
                 xml_path |-> MODEL_OV_PATH,
                 input_shape |-> NoShape]
    [] i = 5 -> [attr |-> "first_stage_model.decoder",
                 module |-> "model.first_stage_model.decoder",
                 xml_path |-> ENCODER_FIRST_STAGE_OV_PATH, input_shape |-> NoShape]

\* the five convert call sites, in order: the pipeline attribute the artifact
\* later replaces, the object passed as `model`, the path and the shape
NotebookCall(i) ==
  CASE i = 1 -> [attr |-> "cond_stage_model",
                 module |-> "FrozenOpenCLIPEmbedderWrapper(cpu)",
                 xml_path |-> COND_STAGE_MODEL_OV_PATH,
                 input_shape |-> NoShape]
    [] i = 2 -> [attr |-> "embedder", module |-> "model.embedder",
                 xml_path |-> EMBEDDER_OV_PATH,
                 input_shape |-> DynShape]
    [] i = 3 -> [attr |-> "first_stage_model.encoder",
                 module |-> "model.first_stage_model.encoder",
                 xml_path |-> ENCODER_FIRST_STAGE_OV_PATH, input_shape |-> NoShape]
    [] i = 4 -> [attr |-> "model.diffusion_model",
                 module |-> "ModelWrapper(model.model.diffusion_model)",
                 xml_path |-> MODEL_OV_PATH,
                 input_shape |-> NoShape]
    [] i = 5 -> [attr |-> "first_stage_model.decoder",
                 module |-> "model.first_stage_model.decoder",
                 xml_path |-> DECODER_FIRST_STAGE_OV_PATH, input_shape |-> NoShape]

\* the pipeline attribute whose object a `model` argument is: the attribute
\* itself, the attribute wrapped in ModelWrapper, or none for the text encoder
\* that the notebook constructs anew
SubmoduleOf(m) ==
  CASE m = "model.embedder" -> "embedder"
    [] m = "model.first_stage_model.encoder" -> "first_stage_model.encoder"
    [] m = "ModelWrapper(model.model.diffusion_model)" -> "model.diffusion_model"
    [] m = "model.first_stage_model.decoder" -> "first_stage_model.decoder"
    [] OTHER -> "none"

\* a compile statement given a path that no convert call of the notebook writes
Mut_CompileCallUnconverted(i) ==
  CASE i = 1 -> COND_STAGE_MODEL_OV_PATH
    [] i = 2 -> ENCODER_FIRST_STAGE_OV_PATH
    [] i = 3 -> EMBEDDER_OV_PATH
    [] i = 4 -> MODEL_OV_PATH
    [] i = 5 -> "models/x.xml"

\* the five core.compile_model statements, in order
CompileCall(i) ==
  CASE i = 1 -> COND_STAGE_MODEL_OV_PATH
    [] i = 2 -> ENCODER_FIRST_STAGE_OV_PATH
    [] i = 3 -> EMBEDDER_OV_PATH
    [] i = 4 -> MODEL_OV_PATH
    [] i = 5 -> DECODER_FIRST_STAGE_OV_PATH

\* the five attribute replacements, in order
WireCall(i) ==
  CASE i = 1 -> [attr |-> "cond_stage_model", xml_path |-> COND_STAGE_MODEL_OV_PATH]
    [] i = 2 -> [attr |-> "first_stage_model.encoder", xml_path |-> ENCODER_FIRST_STAGE_OV_PATH]
    [] i = 3 -> [attr |-> "embedder", xml_path |-> EMBEDDER_OV_PATH]
    [] i = 4 -> [attr |-> "model.diffusion_model", xml_path |-> MODEL_OV_PATH]
    [] i = 5 -> [attr |-> "first_stage_model.decoder", xml_path |-> DECODER_FIRST_STAGE_OV_PATH]

FirstConvertCell == 1
FirstCompileCell == 6
FirstWireCell == 11
LaunchCell == 16
ExceptCell == 17
EndCell == 18

\* the statement at `cell` may run: the one before it returned without raising
Ready == pc = "idle" /\ raised = "None"

NotebookConvert ==
  /\ Ready
  /\ cell \in FirstConvertCell .. FirstCompileCell - 1
  /\ LET c == NotebookCall(cell - FirstConvertCell + 1) IN
       convert(c.module, c.xml_path, c.input_shape)
  /\ cell' = cell + 1
  /\ UNCHANGED << compiled, pipeline, launches, caught >>

\* core.compile_model(path, device.value): reads the artifact at the path
CompileModel ==
  /\ Ready
  /\ cell \in FirstCompileCell .. FirstWireCell - 1
  /\ LET p == CompileCall(cell - FirstCompileCell + 1) IN
       IF files[p].present /\ files[p].complete
         THEN compiled' = compiled \cup {p} /\ UNCHANGED raised
         ELSE raised' = "RuntimeError" /\ UNCHANGED compiled
  /\ cell' = cell + 1
  /\ UNCHANGED << dirs, files, registry, pc, cur, prev, converted_model, thrown, pre,
                  calls, converterFailed, files0, pipeline, launches, caught >>
  /\ UNCHANGED << passed, uivars, civars >>

\* model.<attr> = <Wrapper>(compiled_<...>)
Wire ==
  /\ Ready
  /\ cell \in FirstWireCell .. LaunchCell - 1
  /\ LET w == WireCall(cell - FirstWireCell + 1) IN
       pipeline' = [pipeline EXCEPT ![w.attr] = w.xml_path]
  /\ cell' = cell + 1
  /\ UNCHANGED << dirs, files, registry, pc, cur, prev, converted_model, raised, thrown,
                  pre, calls, converterFailed, files0, compiled, launches, caught >>
  /\ UNCHANGED << passed, uivars, civars >>

\* issubclass(e, Exception)
IsException(e) == e \notin { "KeyboardInterrupt", "SystemExit", "GeneratorExit" }

\* a clause that handles the bind failure only: `except OSError:`
Mut_ExceptClauseOSError(e) == e = "OSError"

\* the clause `except Exception:`
ExceptClause(e) == IsException(e)

\* try: demo.queue().launch(debug=True) returns
LaunchOk ==
  /\ Ready
  /\ cell = LaunchCell
  /\ launches' = Append(launches, [share |-> FALSE, error |-> "None"])
  /\ cell' = EndCell
  /\ UNCHANGED << dirs, files, registry, pc, cur, prev, converted_model, raised, thrown,
                  pre, calls, converterFailed, files0, compiled, pipeline, caught >>
  /\ UNCHANGED << passed, uivars, civars >>

\* try: demo.queue().launch(debug=True) raises e
LaunchRaise(e) ==
  /\ Ready
  /\ cell = LaunchCell
  /\ launches' = Append(launches, [share |-> FALSE, error |-> e])
  /\ IF ExceptClause(e)
       THEN caught' = e /\ cell' = ExceptCell /\ UNCHANGED raised
       ELSE raised' = e /\ cell' = EndCell /\ UNCHANGED caught
  /\ UNCHANGED << dirs, files, registry, pc, cur, prev, converted_model, thrown,
                  pre, calls, converterFailed, files0, compiled, pipeline >>
  /\ UNCHANGED << passed, uivars, civars >>

\* except Exception: demo.queue().launch(debug=True, share=True) returns
ShareLaunchOk ==
  /\ Ready
  /\ cell = ExceptCell
  /\ launches' = Append(launches, [share |-> TRUE, error |-> "None"])
  /\ cell' = EndCell
  /\ UNCHANGED << dirs, files, registry, pc, cur, prev, converted_model, raised, thrown,
                  pre, calls, converterFailed, files0, compiled, pipeline, caught >>
  /\ UNCHANGED << passed, uivars, civars >>

\* except Exception: demo.queue().launch(debug=True, share=True) raises e
ShareLaunchRaise(e) ==
  /\ Ready
  /\ cell = ExceptCell
  /\ launches' = Append(launches, [share |-> TRUE, error |-> e])
  /\ raised' = e
  /\ cell' = EndCell
  /\ UNCHANGED << dirs, files, registry, pc, cur, prev, converted_model, thrown,
                  pre, calls, converterFailed, files0, compiled, pipeline, caught >>
  /\ UNCHANGED << passed, uivars, civars >>

\* what an earlier run of the notebook can have left under models/
NotebookInit ==
  /\ dirs \in SUBSET {"models"}
  /\ files \in LeftoverFiles(NotebookPaths)
  /\ WellFormed(dirs, files)
  /\ cell = FirstConvertCell
  /\ InitProcess
  /\ InitGetImage
  /\ resultDir = FALSE
  /\ InitWorkflow

NotebookNext ==
  \/ NotebookConvert
  \/ ConvertSteps
  \/ CompileModel
  \/ Wire
  \/ LaunchOk
  \/ \E e \in LaunchErrors : LaunchRaise(e)
  \/ ShareLaunchOk
  \/ \E e \in LaunchErrors : ShareLaunchRaise(e)

NotebookSpec == NotebookInit /\ [][NotebookNext]_vars

(***************************************************************************)
(* get_image: the file name derived from the prompt.  A string is the      *)
(* sequence of its characters.                                             *)
(***************************************************************************)
MaxSlashes == 6
MaxPad == 5

\* prompt_str[:40]
MaxNameLen == 40

RECURSIVE Repeat(_, _)
\* c * n
Repeat(c, n) == IF n = 0 THEN << >> ELSE << c >> \o Repeat(c, n - 1)

\* endings of a prompt
Tails == { << >>, << " " >>, << " ", "/" >>, << "_" >>, << "b", " ", "c" >> }

\* the prompts of the demo: slashes, then letters, then one of the endings
Prompts ==
  { Repeat("/", k) \o Repeat("a", j) \o t : k \in 0 .. MaxSlashes, j \in 0 .. MaxPad,
                                            t \in Tails }

RESULT_DIR == << "r", "e", "s", "u", "l", "t", "s" >>
SLASH_WORD == << "_", "s", "l", "a", "s", "h", "_" >>
EMPTY_PROMPT == << "e", "m", "p", "t", "y", "_", "p", "r", "o", "m", "p", "t" >>
MP4 == << ".", "m", "p", "4" >>

\* c in s
Contains(s, c) == \E i \in 1 .. Len(s) : s[i] = c

RECURSIVE StrReplace(_, _, _)
\* s.replace(c, r) for a single character c
StrReplace(s, c, r) ==
  IF s = << >> THEN << >>
  ELSE (IF Head(s) = c THEN r ELSE << Head(s) >>) \o StrReplace(Tail(s), c, r)

\* s[:n]
Slice(s, n) == SubSeq(s, 1, IF Len(s) < n THEN Len(s) ELSE n)

\* the statements with the truncation moved before the replacements
Mut_FileNameTruncateFirst(s) ==
  LET t == Slice(s, MaxNameLen)
      a == IF Contains(s, "/") THEN StrReplace(t, "/", SLASH_WORD) ELSE t
      b == IF Contains(s, " ") THEN StrReplace(a, " ", << "_" >>) ELSE a
  IN  IF Len(b) = 0 THEN EMPTY_PROMPT ELSE b

\* prompt_str as passed to save_videos
FileName(s) ==
  LET a == IF Contains(s, "/") THEN StrReplace(s, "/", SLASH_WORD) ELSE s
      b == IF Contains(s, " ") THEN StrReplace(a, " ", << "_" >>) ELSE a
      t == Slice(b, MaxNameLen)
  IN  IF Len(t) = 0 THEN EMPTY_PROMPT ELSE t

\* os.path.join(result_dir, f"{prompt_str}.mp4"), with the POSIX separator
JoinResultPath(name) == RESULT_DIR \o << "/" >> \o name \o MP4

\* one call of the demo callback, from the directory check to the return
GetImage(s) ==
  /\ resultDir' = TRUE
  /\ prompt' = s
  /\ returned' = JoinResultPath(FileName(s))
  /\ overwritten' = (generated /\ s # prompt /\ returned' = returned)
  /\ generated' = TRUE
  /\ UNCHANGED << dirs, files, registry, pc, cur, prev, converted_model, raised, thrown,
                  pre, calls, passed, converterFailed, files0, nbvars, civars >>

\* the demo serves any number of requests; results may exist from an earlier run
GetImageInit ==
  /\ dirs = {}
  /\ files = [p \in Paths |-> Missing]
  /\ cell = 0
  /\ InitProcess
  /\ InitGetImage
  /\ resultDir \in BOOLEAN
  /\ InitWorkflow

GetImageNext == \E s \in Prompts : GetImage(s)

GetImageSpec == GetImageInit /\ [][GetImageNext]_vars

(***************************************************************************)
(* The CI workflow `treon`: its triggers and its concurrency group.  A     *)
(* file path and a path pattern are sequences of tokens: names, "/", and   *)
(* in a pattern "*" and "**".                                              *)
(***************************************************************************)
MaxRuns == 2

\* name: treon
WorkflowName == "treon"

\* github.run_id of the first run: run ids are unique and lie far above the
\* pull-request numbers of the repository
RunIdBase == 1000

\* files of the repository that an event can change
NotebookFiles ==
  { << "notebooks", "/", "a", ".ipynb" >>,
    << "notebooks", "/", "a", "/", "a", ".ipynb" >> }

ReadmeFile == << "README", ".md" >>

Files ==
  NotebookFiles \cup
  { << "notebooks", "/", "a", "/", "a", ".py" >>,
    << "notebooks", "/", "a", "/", "requirements", ".txt" >>,
    << "requirements", ".txt" >>,
    << ".ci", "/", "a" >>,
    << ".ci", "/", "a", "/", "a" >>,
    << ".github", "/", "workflows", "/", "a", ".yml" >>,
    << ".github", "/", "workflows", "/", ".env" >>,
    << ".github", "/", "a", ".yml" >>,
    << "docs", "/", "a", ".ipynb" >>,
    ReadmeFile }

\* the sets of files one event changes: one file, or the README with another
ChangedSets == { {f} : f \in Files } \cup { {ReadmeFile, f} : f \in Files }

\* branches of the repository
RepoBranches == { "main", "latest", "feature" }

\* open pull requests: number -> base branch
PullRequests == << "main", "latest", "feature" >>

\* on.push.branches and on.pull_request.branches
branches == { "main", "latest" }

\* on.push.paths and on.pull_request.paths
paths ==
  { << "notebooks", "/", "**", ".ipynb" >>,
    << "notebooks", "/", "**", ".py" >>,
    << "requirements", ".txt" >>,
    << ".ci", "/", "*" >>,
    << ".github", "/", "workflows", "/", "*", ".yml" >>,
    << ".github", "/", "workflows", "/", ".env" >> }

RECURSIVE Match(_, _)
\* filter pattern matching: "*" matches any characters but "/", "**" any
\* characters, anything else itself
Match(pat, f) ==
  IF pat = << >> THEN f = << >>
  ELSE IF Head(pat) = "**"
    THEN Match(Tail(pat), f) \/ (f # << >> /\ Match(pat, Tail(f)))
  ELSE IF Head(pat) = "*"
    THEN Match(Tail(pat), f) \/ (f # << >> /\ Head(f) # "/" /\ Match(pat, Tail(f)))
  ELSE f # << >> /\ Head(f) = Head(pat) /\ Match(Tail(pat), Tail(f))

\* a paths filter that requires every changed file to match
Mut_PathFilterEveryFile(changed) ==
  \A f \in changed : \E pat \in paths : Match(pat, f)

\* the paths filter: at least one changed file matches a pattern
PathFilter(changed) ==
  \E f \in changed : \E pat \in paths : Match(pat, f)

\* the branches filter: the pushed branch, or the base branch of the pull request
BranchFilter(b) == b \in branches

\* on: whether the event starts a run of the workflow
Triggered(e) ==
  \/ e.type = "workflow_dispatch"
  \/ /\ e.type \in { "push", "pull_request" }
     /\ BranchFilter(e.branch)
     /\ PathFilter(e.changed)

\* the expression a || b: b when a is null (0)
OrElse(a, b) == IF a = 0 THEN b ELSE a

\* a group made of the workflow name alone
Mut_ConcurrencyGroupWorkflowOnly(e, run_id) == << WorkflowName, 0 >>

\* concurrency.group
ConcurrencyGroup(e, run_id) == << WorkflowName, OrElse(e.pr, run_id) >>

\* cancel-in-progress: true
CancelInProgress(rs, g) ==
  [ i \in 1 .. Len(rs) |->
      IF rs[i].group = g /\ rs[i].status = "in_progress"
        THEN [rs[i] EXCEPT !.status = "cancelled"]
        ELSE rs[i] ]

\* the repository receives event e
Event(e) ==
  /\ Len(runs) < MaxRuns
  /\ lastEvent' = e
  /\ lastTriggered' = Triggered(e)
  /\ IF Triggered(e)
       THEN LET id == RunIdBase + Len(runs) + 1
                g == ConcurrencyGroup(e, id)
            IN  runs' = Append(CancelInProgress(runs, g),
                               [id |-> id, pr |-> e.pr, group |-> g,
                                status |-> "in_progress"])
       ELSE UNCHANGED runs
  /\ UNCHANGED << dirs, files, registry, pc, cur, prev, converted_model, raised, thrown,
                  pre, calls, passed, converterFailed, files0, nbvars, uivars >>

Push ==
  \E b \in RepoBranches, c \in ChangedSets :
    Event([type |-> "push", branch |-> b, pr |-> 0, changed |-> c])

PullRequest ==
  \E n \in 1 .. Len(PullRequests), c \in ChangedSets :
    Event([type |-> "pull_request", branch |-> PullRequests[n], pr |-> n, changed |-> c])

WorkflowDispatch ==
  \E b \in RepoBranches :
    Event([type |-> "workflow_dispatch", branch |-> b, pr |-> 0, changed |-> {}])

\* run i finishes its jobs
Complete(i) ==
  /\ runs[i].status = "in_progress"
  /\ runs' = [runs EXCEPT ![i].status = "completed"]
  /\ UNCHANGED << lastEvent, lastTriggered >>
  /\ UNCHANGED << dirs, files, registry, pc, cur, prev, converted_model, raised, thrown,
                  pre, calls, passed, converterFailed, files0, nbvars, uivars >>

WorkflowInit ==
  /\ dirs = {}
  /\ files = [p \in Paths |-> Missing]
  /\ cell = 0
  /\ InitProcess
  /\ InitGetImage
  /\ resultDir = FALSE
  /\ InitWorkflow

WorkflowNext ==
  \/ Push
  \/ PullRequest
  \/ WorkflowDispatch
  \/ \E i \in 1 .. Len(runs) : Complete(i)

WorkflowSpec == WorkflowInit /\ [][WorkflowNext]_vars

(***************************************************************************)
(* Properties of convert, checked under Spec.                              *)
(***************************************************************************)
\* a convert call has been made and has ended
CallEnded == cur.status # "none" /\ pc = "idle"

\* the call before the current one ended without raising
PrevSucceeded == prev.status \in { "returned", "converted" }

\* C1: when convert is called twice in a row with the same destination path
\* and the first call returned without raising, the second call returns
\* without invoking the converter, so the two calls together invoke it at
\* most once.
C1_SecondCallSkipsConverter ==
  (PrevSucceeded /\ cur.xml_path = prev.xml_path)
    => /\ cur.status = "returned"
       /\ cur.nconv = 0
       /\ prev.nconv + cur.nconv <= 1

\* C1 witness: a call that converted, followed by a call with the same path
\* that returned at once.
C1_Witness ==
  /\ prev.status = "converted" /\ prev.nconv = 1
  /\ cur.xml_path = prev.xml_path
  /\ cur.status = "returned"

\* C2: a call made while a file exists at the destination path changes
\* nothing: no converter invocation, the same files (none rewritten), the same
\* directories, the class registry as it was, and no exception.
C2_CacheHitChangesNothing ==
  (cur.status # "none" /\ pre.files[cur.xml_path].present)
    => /\ pc = "idle" /\ cur.status = "returned"
       /\ cur.nconv = 0
       /\ files = pre.files
       /\ dirs = pre.dirs
       /\ registry = pre.registry
       /\ raised = "None"

\* C2 witness: a call that found a file, made while the registry still held
\* entries, so that a reset would have shown.
C2_Witness ==
  /\ CallEnded
  /\ pre.files[cur.xml_path].present
  /\ pre.registry > 0 /\ registry = pre.registry

\* C3: after a call made while the artifact was Missing and its parent
\* directory did not exist, the parent directory and all its ancestors exist,
\* however the call ended.
C3_ParentDirectoryCreated ==
  (CallEnded /\ ~pre.files[cur.xml_path].present /\ Parent(cur.xml_path) \notin pre.dirs)
    => Ancestors(Parent(cur.xml_path)) \subseteq dirs

\* C3 witness: a call for out/ir/y.xml made with neither out nor out/ir in
\* place, ended by the converter raising, after which both exist.
C3_Witness ==
  /\ CallEnded
  /\ cur.xml_path = "out/ir/y.xml"
  /\ pre.dirs \cap { "out", "out/ir" } = {}
  /\ cur.status = "raised"
  /\ { "out", "out/ir" } \subseteq dirs

\* C4: when a call for module A converted into a path and the next call
\* names the same path with another module B, the artifact at the path after
\* the second call is the one saved from A.
C4_StaleArtifactReused ==
  (prev.status = "converted" /\ cur.xml_path = prev.xml_path /\ cur.model # prev.model)
    => /\ files[cur.xml_path] = SavedArtifact(ConvertModel(prev.model, prev.input_shape))
       /\ cur.nconv = 0

\* C4 witness: stubModule converted into models/x.xml, then changedModule was
\* passed with the same path and the call has ended.
C4_Witness ==
  /\ CallEnded
  /\ prev.status = "converted" /\ prev.model = "stubModule"
  /\ prev.xml_path = "models/x.xml"
  /\ cur.xml_path = "models/x.xml" /\ cur.model = "changedModule"
  /\ files["models/x.xml"].src = "stubModule"

\* C5: an artifact is Missing or Present; a Present artifact is never made
\* Missing nor modified by any step, and a Missing one becomes Present only
\* by the save that follows a converter invocation that returned, in a call
\* for that path.
C5_MissingToPresentOnly ==
  [][\A p \in Paths :
       /\ files[p].present => files'[p] = files[p]
       /\ (~files[p].present /\ files'[p].present)
            => /\ pc = "save_model"
               /\ cur.xml_path = p
               /\ cur.nconv = 1
               /\ converted_model = ConvertModel(cur.model, cur.input_shape)
               /\ files'[p].src = cur.model]_vars

\* C5 witness: an artifact that was Missing at the start, became Present, and
\* is unchanged after a further call for its path with another module.
C5_Witness ==
  \E p \in UserPaths :
    /\ ~files0[p].present
    /\ files[p].present /\ files[p].complete
    /\ CallEnded /\ cur.xml_path = p /\ prev.xml_path = p
    /\ files[p].src = prev.model /\ cur.model # prev.model

\* C6: a call made while a partial file is at the destination path treats
\* the artifact as Present: it returns without invoking the converter and
\* leaves the partial file as it is.
C6_PartialFileCountsAsPresent ==
  (cur.status # "none" /\ pre.files[cur.xml_path].present
     /\ ~pre.files[cur.xml_path].complete)
    => /\ cur.status = "returned"
       /\ cur.nconv = 0
       /\ files[cur.xml_path] = pre.files[cur.xml_path]

\* C6 witness: save_model was interrupted in one call and left a partial file
\* where there was none; the next call for that path returned at once.
C6_Witness ==
  /\ prev.status = "raised" /\ prev.site = "save_model"
  /\ cur.xml_path = prev.xml_path
  /\ ~files0[cur.xml_path].present
  /\ files[cur.xml_path].present /\ ~files[cur.xml_path].complete
  /\ cur.status = "returned"

\* C7: when the converter raises, the caller sees that very exception, the
\* converter was invoked exactly once in the call, no artifact was written and
\* the artifact is Missing; it stays Missing until the converter is invoked
\* for that path again, and the next call for that path invokes it.
C7_ConverterErrorPropagates ==
  /\ (cur.status = "raised" /\ cur.site = "convert_model")
       => /\ pc = "idle"
          /\ raised = thrown /\ raised \in ConverterErrors
          /\ cur.nconv = 1
          /\ files = pre.files
          /\ ~files[cur.xml_path].present
  /\ \A p \in converterFailed : ~files[p].present
  /\ (prev.status = "raised" /\ prev.site = "convert_model"
        /\ cur.xml_path = prev.xml_path /\ CallEnded)
       => cur.nconv = 1

\* C7 witness: the converter raised in one call, and the next call for the
\* same path invoked it again and converted.
C7_Witness ==
  /\ prev.status = "raised" /\ prev.site = "convert_model" /\ prev.nconv = 1
  /\ cur.xml_path = prev.xml_path
  /\ cur.status = "converted" /\ cur.nconv = 1

\* C8 as claimed: whenever a conversion starts the class registry is empty,
\* the reset having followed every earlier converter invocation, so that the
\* registry never holds the entries of more than one conversion.
C8_RegistryClearedAfterEachConversion ==
  /\ pc = "convert_model" => registry = 0
  /\ registry <= 1

(***************************************************************************)
(* Properties of the notebook run, checked under NotebookSpec.             *)
(***************************************************************************)
ConvertCells == 1 .. 5

\* the artifact call i of the notebook saves
NotebookArtifact(i) ==
  SavedArtifact(ConvertModel(NotebookCall(i).module, NotebookCall(i).input_shape))

\* C9: the notebook makes five convert calls in sequence, with pairwise
\* distinct destination paths under models/; when all five artifacts were
\* Missing at the start and every conversion succeeded, all five are Present at
\* the end, each saved from its own module; and a call never creates or
\* changes the artifact of a path other than its own.
C9_FiveIndependentArtifacts ==
  /\ \A i, j \in ConvertCells :
       i # j => NotebookCall(i).xml_path # NotebookCall(j).xml_path
  /\ \A i \in ConvertCells :
       NotebookCall(i).xml_path \in NotebookPaths /\ Parent(NotebookCall(i).xml_path) = "models"
  /\ cell \in ConvertCells => calls = cell - 1
  /\ cell >= FirstCompileCell => calls = 5
  /\ ((\A p \in Paths : ~files0[p].present)
        /\ cell >= FirstCompileCell /\ pc = "idle" /\ cur.status = "converted")
       => \A i \in ConvertCells : files[NotebookCall(i).xml_path] = NotebookArtifact(i)
  /\ cur.status # "none"
       => \A q \in Paths \ {cur.xml_path} : files[q] = pre.files[q]

\* C9 witness: a run that began with no artifact and came to its end with the
\* five artifacts saved.
C9_Witness ==
  /\ \A p \in Paths : ~files0[p].present
  /\ cell = EndCell
  /\ \A i \in ConvertCells : files[NotebookCall(i).xml_path] = NotebookArtifact(i)

\* the first launch was attempted and raised
FirstLaunchRaised == Len(launches) >= 1 /\ launches[1].error # "None"

\* the except clause took the first launch's exception and the launch with
\* share=True follows, once
HandledBySharedLaunch ==
  /\ caught = launches[1].error
  /\ raised # launches[1].error \/ Len(launches) = 2
  /\ cell \in { ExceptCell, EndCell }
  /\ cell = ExceptCell => Len(launches) = 1 /\ raised = "None"
  /\ cell = EndCell => Len(launches) = 2 /\ launches[2].share

\* C10 as claimed: whatever exception the first launch raises is caught and
\* not re-raised, and the launch with share=True is attempted once.
C10_AnyExceptionCaught == FirstLaunchRaised => HandledBySharedLaunch

\* C10 amended: an exception of the first launch that is an instance of
\* Exception is caught and not re-raised and the launch with share=True is
\* attempted exactly once; KeyboardInterrupt and SystemExit, which are not,
\* propagate with no second launch; the shared launch is never attempted when
\* the first launch returns; an exception of the shared launch propagates.
C10_ExceptionCaughtBaseExceptionPropagates ==
  /\ Len(launches) <= 2
  /\ Len(launches) >= 1 => ~launches[1].share
  /\ (FirstLaunchRaised /\ launches[1].error \notin { "KeyboardInterrupt", "SystemExit" })
       => HandledBySharedLaunch
  /\ (FirstLaunchRaised /\ launches[1].error \in { "KeyboardInterrupt", "SystemExit" })
       => /\ Len(launches) = 1 /\ caught = "None"
          /\ raised = launches[1].error /\ cell = EndCell
  /\ (Len(launches) >= 1 /\ launches[1].error = "None") => Len(launches) = 1
  /\ Len(launches) = 2 => raised = launches[2].error

\* C10 witness: the first launch raised ValueError, which was caught; the
\* shared launch was attempted and raised OSError, which propagated.
C10_Witness ==
  /\ Len(launches) = 2
  /\ launches[1].error = "ValueError" /\ caught = "ValueError"
  /\ launches[2].share /\ launches[2].error = "OSError"
  /\ raised = "OSError"

\* the converter is being, or has been, invoked by the current call
ConverterInvoked == cur'.xml_path = cur.xml_path /\ cur'.nconv = cur.nconv + 1

\* the current call runs the cleanup statements in this step
RegistryReset == cur.status = "running" /\ cur'.status = "converted"

\* C13: within one convert call on a missing artifact the steps happen in
\* the order create parent directory, invoke the converter, save the
\* artifact, reset the class registry: a directory is created only while the
\* converter has not been invoked; the converter is invoked only once the
\* parent directory exists and nothing has been saved; the artifact is written
\* only after the converter returned its result without raising; the registry
\* is reset only after the complete artifact of that result is at the path.
C13_StepsInFixedOrder ==
  [][ /\ dirs' # dirs
        => /\ cur.nconv = 0 /\ converted_model = NoModel
           /\ ~PathExists(files, cur.xml_path)
      /\ ConverterInvoked
        => /\ cur.nconv = 0
           /\ Ancestors(Parent(cur.xml_path)) \subseteq dirs
           /\ ~PathExists(files, cur.xml_path)
           /\ ~PathExists(pre.files, cur.xml_path)
      /\ files' # files
        => /\ cur.nconv = 1 /\ cur.status = "running"
           /\ converted_model # NoModel
           /\ converted_model.src = cur.model
           /\ Ancestors(Parent(cur.xml_path)) \subseteq dirs
           /\ \A q \in Paths \ {cur.xml_path} : files'[q] = files[q]
      /\ RegistryReset
        => /\ cur.nconv = 1
           /\ ~PathExists(pre.files, cur.xml_path)
           /\ files[cur.xml_path] = SavedArtifact(converted_model)
           /\ registry' = 0
    ]_vars

\* C13 witness: a call on out/ir/y.xml, made when no directory existed, has
\* created both directories, invoked the converter once, saved the artifact
\* and reset the registry.
C13_Witness ==
  /\ CallEnded /\ cur.status = "converted"
  /\ cur.xml_path = "out/ir/y.xml"
  /\ pre.dirs = {} /\ { "out", "out/ir" } \subseteq dirs
  /\ cur.nconv = 1
  /\ files["out/ir/y.xml"] = SavedArtifact(converted_model)
  /\ registry = 0

\* C15 as claimed: on a missing artifact the converter receives the
\* input-shape override exactly when the call was given one (and is invoked
\* with the example input only when it was given none), and it is invoked
\* exactly once.
C15_OverridePassedWhenPresent ==
  /\ converted_model # NoModel
       => converted_model.input = IF cur.input_shape.given THEN cur.input_shape
                                                             ELSE NoShape
  /\ (CallEnded /\ ~PathExists(pre.files, cur.xml_path)) => cur.nconv = 1

\* C15 amended: on a missing artifact the converter receives the input-shape
\* override exactly when the call was given a non-empty one; given None or
\* an empty list it is invoked with the example input only; in every case it
\* is invoked exactly once.
C15_OverridePassedWhenNonEmpty ==
  /\ converted_model # NoModel
       => converted_model.input =
            IF cur.input_shape.given /\ Len(cur.input_shape.dims) > 0
              THEN cur.input_shape
              ELSE NoShape
  /\ (CallEnded /\ ~PathExists(pre.files, cur.xml_path)) => cur.nconv = 1

\* C15 witness: a call with the override [1, 3, -1, -1] converted a missing
\* artifact with that override, and the next call, given an empty list,
\* converted another missing artifact with the example input only; each
\* invoked the converter once.
C15_Witness ==
  /\ CallEnded /\ cur.status = "converted" /\ prev.status = "converted"
  /\ prev.input_shape = DynShape /\ files[prev.xml_path].input = DynShape
  /\ prev.nconv = 1
  /\ cur.xml_path # prev.xml_path
  /\ cur.input_shape = EmptyShape /\ converted_model.input = NoShape
  /\ cur.nconv = 1

\* a core.compile_model statement runs in this step
CompileInvoked == cell \in FirstCompileCell .. FirstWireCell - 1 /\ cell' = cell + 1

\* all five convert calls of the notebook have been made and have returned
AllConverted ==
  /\ calls = 5 /\ pc = "idle" /\ raised = "None"
  /\ \A i \in ConvertCells : NotebookCall(i).module \in passed

\* C14 as claimed: a sub-module is replaced only after all five convert
\* calls, only by the adapter of a compiled artifact, and only after the
\* sub-module itself has been passed to convert.
C14_ReplacedOnlyAfterPassedToConvert ==
  \A a \in Attrs :
    pipeline[a] # "torch"
      => /\ calls = 5
         /\ pipeline[a] \in compiled
         /\ \E m \in passed : SubmoduleOf(m) = a

\* C14 amended: every compile step and every attribute replacement happens
\* after all five convert calls have returned; compile_model is never invoked
\* on a missing artifact; a sub-module is replaced only by the adapter of the
\* compiled artifact that the convert call for that attribute wrote; embedder,
\* encoder and decoder have been passed to convert themselves and the
\* diffusion model wrapped in ModelWrapper, while cond_stage_model is replaced
\* without having been passed: its convert call is given a newly constructed
\* text encoder.
C14_GlueAfterAllConversions ==
  [][ /\ CompileInvoked
        => /\ AllConverted
           /\ PathExists(files, CompileCall(cell - FirstCompileCell + 1))
      /\ compiled' # compiled => CompileInvoked
      /\ \A a \in Attrs :
           pipeline'[a] # pipeline[a]
             => /\ AllConverted
                /\ compiled = NotebookPaths
                /\ pipeline'[a] \in compiled
                /\ \E i \in ConvertCells :
                     /\ NotebookCall(i).attr = a
                     /\ NotebookCall(i).xml_path = pipeline'[a]
                     /\ NotebookCall(i).module \in passed
                     /\ SubmoduleOf(NotebookCall(i).module) \in { a, "none" }
                /\ (\E m \in passed : SubmoduleOf(m) = a) <=> a # "cond_stage_model"
    ]_vars

\* C14 witness: starting with no artifact, the notebook converted all five,
\* compiled all five and replaced all five sub-modules.
C14_Witness ==
  /\ \A p \in NotebookPaths : ~PathExists(files0, p)
  /\ calls = 5 /\ compiled = NotebookPaths
  /\ \A i \in ConvertCells : pipeline[NotebookCall(i).attr] = NotebookCall(i).xml_path
  /\ cell = LaunchCell /\ raised = "None"

(***************************************************************************)
(* Properties of get_image, checked under GetImageSpec.                    *)
(***************************************************************************)
\* the sanitized form of a prompt, cut to its first 40 characters
SanitizedPrefix(s) ==
  Slice(StrReplace(StrReplace(s, "/", SLASH_WORD), " ", << "_" >>), MaxNameLen)

\* what follows "results/" and precedes ".mp4" in a returned path
NameIn(path) == SubSeq(path, Len(RESULT_DIR) + 2, Len(path) - Len(MP4))

\* C16: for every prompt, the file name get_image derives from it (replace
\* "/" by "_slash_", then spaces by "_", then truncate to 40 characters, then
\* "empty_prompt" when empty) is non-empty, at most 40 characters long and
\* has neither "/" nor a space, and the returned path is results/<name>.mp4;
\* two prompts whose sanitized forms agree on the first 40 characters get the
\* same path.
C16_FileNameSafeAndBounded ==
  [][ /\ generated'
        => LET name == NameIn(returned') IN
             /\ returned' = RESULT_DIR \o << "/" >> \o name \o MP4
             /\ name = IF SanitizedPrefix(prompt') = << >>
                         THEN EMPTY_PROMPT
                         ELSE SanitizedPrefix(prompt')
             /\ Len(name) >= 1 /\ Len(name) <= 40
             /\ \A i \in 1 .. Len(name) : name[i] \notin { "/", " " }
             /\ resultDir'
      /\ (generated /\ SanitizedPrefix(prompt') = SanitizedPrefix(prompt))
           => returned' = returned
    ]_vars

\* C16 witness: a prompt of six slashes and a space, whose sanitized form
\* has 43 characters, got a name of 40 characters, the same as the different
\* prompt before it, whose video it overwrote.
C16_Witness ==
  /\ generated /\ overwritten
  /\ prompt = Repeat("/", 6) \o << " " >>
  /\ Len(NameIn(returned)) = 40
  /\ returned = RESULT_DIR \o << "/" >> \o NameIn(returned) \o MP4

(***************************************************************************)
(* Properties of the CI workflow, checked under WorkflowSpec.              *)
(***************************************************************************)
\* the file lies inside the declared path filters: a .ipynb or .py file
\* anywhere under notebooks/, the top-level requirements.txt, a file directly
\* in .ci/, a .yml file directly in .github/workflows/, or .github/workflows/.env
InsideFilters(f) ==
  \/ /\ Len(f) >= 3 /\ f[1] = "notebooks" /\ f[2] = "/"
     /\ f[Len(f)] \in { ".ipynb", ".py" }
  \/ f = << "requirements", ".txt" >>
  \/ /\ Len(f) >= 3 /\ f[1] = ".ci" /\ f[2] = "/"
     /\ \A i \in 3 .. Len(f) : f[i] # "/"
  \/ /\ Len(f) >= 5 /\ SubSeq(f, 1, 4) = << ".github", "/", "workflows", "/" >>
     /\ f[Len(f)] = ".yml"
     /\ \A i \in 5 .. Len(f) : f[i] # "/"
  \/ f = << ".github", "/", "workflows", "/", ".env" >>

\* the last event was a push or a pull-request event
PushOrPullRequest == lastEvent.type \in { "push", "pull_request" }

\* the last event changed no file inside the path filters
OnlyOutsideFilters == \A f \in lastEvent.changed : ~InsideFilters(f)

\* the last event changed a notebook under notebooks/
NotebookChanged == \E f \in lastEvent.changed : f \in NotebookFiles

\* C11 as claimed: for push and pull-request events, a change limited to
\* files outside the path filters does not trigger the workflow and a change
\* to any notebook under notebooks/ does.
C11_NotebookChangeTriggers ==
  PushOrPullRequest
    => /\ OnlyOutsideFilters => ~lastTriggered
       /\ NotebookChanged => lastTriggered

\* C11 amended: for push and pull-request events, a change limited to files
\* outside the path filters does not trigger the workflow; a change to any
\* notebook under notebooks/ triggers it, and starts a run, when the pushed
\* branch (the base branch of the pull request) is main or latest; an event
\* on any other branch does not trigger it.
C11_NotebookChangeTriggersOnWatchedBranch ==
  PushOrPullRequest
    => /\ OnlyOutsideFilters => ~lastTriggered
       /\ (NotebookChanged /\ lastEvent.branch \in { "main", "latest" })
            => /\ lastTriggered
               /\ Len(runs) >= 1 /\ runs[Len(runs)].pr = lastEvent.pr
       /\ lastEvent.branch \notin { "main", "latest" } => ~lastTriggered

\* C11 witness: a push to main that changed the README and a notebook in a
\* sub-directory of notebooks/ started a run.
C11_Witness ==
  /\ lastEvent.type = "push" /\ lastEvent.branch = "main"
  /\ lastEvent.changed = { ReadmeFile, << "notebooks", "/", "a", "/", "a", ".ipynb" >> }
  /\ lastTriggered
  /\ Len(runs) = 1 /\ runs[1].status = "in_progress"

\* C12: when a new run starts in a concurrency group (workflow name plus
\* pull-request number), any run of that group still in progress is
\* cancelled, so at most one run per group is in progress at any time; a run
\* without a pull-request number is grouped by its own run id and is never
\* cancelled by a later run; a run is cancelled only when a later run of its
\* group exists.
C12_OneRunInProgressPerGroup ==
  /\ \A i, j \in 1 .. Len(runs) :
       (i < j /\ runs[i].group = runs[j].group) => runs[i].status # "in_progress"
  /\ \A i, j \in 1 .. Len(runs) :
       (i # j /\ runs[i].status = "in_progress" /\ runs[j].status = "in_progress")
         => runs[i].group # runs[j].group
  /\ \A i \in 1 .. Len(runs) :
       /\ runs[i].pr # 0 => runs[i].group = << "treon", runs[i].pr >>
       /\ runs[i].pr = 0
            => /\ runs[i].group = << "treon", runs[i].id >>
               /\ runs[i].status # "cancelled"
               /\ \A j \in 1 .. Len(runs) : j # i => runs[j].group # runs[i].group
       /\ runs[i].status = "cancelled"
            => \E j \in i + 1 .. Len(runs) : runs[j].pr = runs[i].pr
  /\ \A i, j \in 1 .. Len(runs) : i # j => runs[i].id # runs[j].id

\* C12 witness: a second run for pull request 1 started while the first was
\* in progress, and the first was cancelled.
C12_Witness ==
  /\ Len(runs) = 2
  /\ runs[1].pr = 1 /\ runs[1].status = "cancelled"
  /\ runs[2].pr = 1 /\ runs[2].status = "in_progress"

====
